---- MODULE Spec2Model ----
(***************************************************************************)
(* Model of task_6_greedy_dp_food.py: the ratio-greedy selector            *)
(* (greedy_algorithm), the 0/1-knapsack selector (dynamic_programming)     *)
(* and the comparison made by demo_for_budget; of task_1_linked_list.py:   *)
(* LinkedList.sort and LinkedList.merge_sorted over a heap of nodes; and   *)
(* of task_5_dfs_bfs_visualization.py: traverse_dfs and traverse_bfs.      *)
(* The three scripts are separate programs: each has its own               *)
(* specification, under which the variables of the other two stay idle.    *)
(*                                                                         *)
(* A catalog (the dict food_items) is a sequence of records in insertion   *)
(* order; the name of an item is its insertion rank 1..n, so names are     *)
(* unique as dict keys are.  Python lists are TLA+ sequences: the Python   *)
(* index k of a list is position k + 1, and PyIdx gives Python's rules for *)
(* negative and out-of-range indices.  Each call has its own frame: every  *)
(* local variable is a function of the call.                               *)
(***************************************************************************)
EXTENDS Integers, Sequences, FiniteSets, TLC

\* Bounds of the model.
MaxItems == 2
MaxCost == 2
MaxCalories == 2
MaxBudget == 4
MaxLen == 3
MaxValue == 2
MaxNodes == 5

\* The calls made over one catalog and one budget.
Calls == {1, 2}

VARIABLES food_items, budget, fn, pc, scored, pos, chosen, total_cost,
          total_calories, dp, keep, i, w, result, err, verdict

\* task_1_linked_list.py: the heap of Node objects, the head of every
\* LinkedList, the last operation and to_list() of every list before it.
VARIABLES nodes, heads, last_op, before

\* task_5_dfs_bfs_visualization.py: the tree, the traversal that runs and
\* its position, and its locals order, stack and queue.
VARIABLES tree, tfn, tpc, order, stack, queue

selvars == <<food_items, budget, fn, pc, scored, pos, chosen, total_cost,
             total_calories, dp, keep, i, w, result, err, verdict>>

listvars == <<nodes, heads, last_op, before>>

treevars == <<tree, tfn, tpc, order, stack, queue>>

vars == <<selvars, listvars, treevars>>

----------------------------------------------------------------------------
\* Inputs

Items == [cost : 0..MaxCost, calories : 0..MaxCalories]

Catalogs == UNION {[1..n -> Items] : n \in 0..MaxItems}

Budgets == (0 - 2)..MaxBudget

----------------------------------------------------------------------------
\* Python list primitives

\* Position of Python index k in lst; 0 stands for IndexError.
PyIdx(lst, k) ==
    IF k >= 0 /\ k < Len(lst) THEN k + 1
    ELSE IF k < 0 /\ k >= 0 - Len(lst) THEN Len(lst) + k + 1
    ELSE 0

\* [x] * cnt : the empty list when cnt <= 0.
PyRepeat(x, cnt) == [j \in 1..cnt |-> x]

\* The list left as it is.
NotReversed(s) == s

\* list.reverse()
Reverse(s) == [j \in 1..Len(s) |-> s[Len(s) + 1 - j]]

RECURSIVE SumCost(_, _)
\* sum(food_items[name]["cost"] for name in names)
SumCost(cat, names) ==
    IF names = <<>> THEN 0
    ELSE cat[Head(names)].cost + SumCost(cat, Tail(names))

RECURSIVE SumCalories(_, _)
\* sum(food_items[name]["calories"] for name in names)
SumCalories(cat, names) ==
    IF names = <<>> THEN 0
    ELSE cat[Head(names)].calories + SumCalories(cat, Tail(names))

----------------------------------------------------------------------------
\* greedy_algorithm

\* Line 54 with < for <=.
SkipNegativeOnly(cost) == cost < 0

\* Line 54: the guard that skips an item before its ratio is computed.
Skip(cost) == cost <= 0

\* Line 57: ratio = calories / cost.  The float quotient is kept as the exact
\* fraction; for the small integers of the model two quotients are equal as
\* floats exactly when they are equal as fractions.
Ratio(calories, cost) == [num |-> calories, den |-> cost]

\* x >= y for two ratios with positive denominators.
RatioGE(x, y) == x.num * y.den >= y.num * x.den

\* Line 57 raises ZeroDivisionError when an item with cost 0 reaches it.
DivByZero(cat) ==
    \E k \in 1..Len(cat) : ~Skip(cat[k].cost) /\ cat[k].cost = 0

RECURSIVE Scored(_, _)
\* Lines 50-58: the tuples (name, cost, calories, ratio) of the first n
\* items, in insertion order, without the skipped ones.
Scored(cat, n) ==
    IF n = 0 THEN <<>>
    ELSE IF Skip(cat[n].cost) THEN Scored(cat, n - 1)
    ELSE Append(Scored(cat, n - 1),
                [name |-> n, cost |-> cat[n].cost,
                 calories |-> cat[n].calories,
                 ratio |-> Ratio(cat[n].calories, cat[n].cost)])

\* x is placed behind every element whose ratio is >= its own.
InsertDesc(t, x) ==
    LET k == Cardinality({j \in 1..Len(t) : RatioGE(t[j].ratio, x.ratio)})
    IN SubSeq(t, 1, k) \o <<x>> \o SubSeq(t, k + 1, Len(t))

RECURSIVE SortDesc(_)
\* Stable sort by ratio, descending: equal ratios keep their order.
SortDesc(s) ==
    IF s = <<>> THEN <<>>
    ELSE InsertDesc(SortDesc(SubSeq(s, 1, Len(s) - 1)), s[Len(s)])

\* Every arrangement of s with non-increasing ratios.
AnyDescOrder(s) ==
    {[j \in 1..Len(s) |-> s[p[j]]] :
        p \in {q \in [1..Len(s) -> 1..Len(s)] :
                 /\ \A a, b \in 1..Len(s) : a # b => q[a] # q[b]
                 /\ \A a \in 1..(Len(s) - 1) :
                       RatioGE(s[q[a]].ratio, s[q[a + 1]].ratio)}}

\* Line 61: the lists scored.sort(key=ratio, reverse=True) can leave.
\* list.sort is stable, also with reverse=True: there is one outcome.
SortOutcomes(s) == {SortDesc(s)}

\* Line 68 with < for <=.
FitsStrictly(tc, cost, b) == tc + cost < b

\* Line 68 without the cost of the item that is looked at.
FitsBefore(tc, cost, b) == tc <= b

\* Line 68: the item fits into what is left of the budget.
Fits(tc, cost, b) == tc + cost <= b

\* Lines 69-71 with the totals updated from the wrong fields.
TakeSwapped(ch, tc, tcal, e) ==
    [chosen |-> Append(ch, e.name),
     total_cost |-> tc + e.calories,
     total_calories |-> tcal + e.cost]

\* Lines 69-71: the item is taken.
Take(ch, tc, tcal, e) ==
    [chosen |-> Append(ch, e.name),
     total_cost |-> tc + e.cost,
     total_calories |-> tcal + e.calories]

\* SelectionResult(items, total_cost, total_calories)
SelectionResult(ch, tc, tcal) ==
    [items |-> ch, total_cost |-> tc, total_calories |-> tcal]

\* The call has returned or raised.
Finished(c) == pc[c] \in {"done", "raised"}

\* Calls are made one after the other, as in demo_for_budget.
MayStart(c) == pc[c] = "idle" /\ \A d \in Calls : d < c => Finished(d)

\* greedy_algorithm(food_items, budget) is called.
CallGreedy(c) ==
    /\ MayStart(c)
    /\ fn' = [fn EXCEPT ![c] = "greedy"]
    /\ pc' = [pc EXCEPT ![c] = "g_score"]
    /\ UNCHANGED <<listvars, treevars, food_items, budget, scored, pos, chosen, total_cost,
                   total_calories, dp, keep, i, w, result, err, verdict>>

\* Lines 50-58 with the ratio stored into the entry of the catalog
\* (data["ratio"] = calories / cost) as well.
GreedyScoreAnnotating(c) ==
    /\ pc[c] = "g_score"
    /\ pc' = [pc EXCEPT ![c] = "g_sort"]
    /\ scored' = [scored EXCEPT ![c] = Scored(food_items, Len(food_items))]
    /\ food_items' =
          [k \in 1..Len(food_items) |->
              IF Skip(food_items[k].cost) THEN food_items[k]
              ELSE [cost |-> food_items[k].cost,
                    calories |-> food_items[k].calories,
                    ratio |-> Ratio(food_items[k].calories,
                                    food_items[k].cost)]]
    /\ UNCHANGED <<listvars, treevars, budget, fn, pos, chosen, total_cost,
                   total_calories, dp, keep, i, w, result, err, verdict>>

\* Lines 50-58.
GreedyScore(c) ==
    /\ pc[c] = "g_score"
    /\ IF DivByZero(food_items)
       THEN /\ pc' = [pc EXCEPT ![c] = "raised"]
            /\ err' = [err EXCEPT ![c] = "ZeroDivisionError"]
            /\ UNCHANGED scored
       ELSE /\ pc' = [pc EXCEPT ![c] = "g_sort"]
            /\ scored' = [scored EXCEPT
                            ![c] = Scored(food_items, Len(food_items))]
            /\ UNCHANGED err
    /\ UNCHANGED <<listvars, treevars, food_items, budget, fn, pos, chosen, total_cost,
                   total_calories, dp, keep, i, w, result, verdict>>

\* Lines 61-65.
GreedySort(c) ==
    /\ pc[c] = "g_sort"
    /\ \E s \in SortOutcomes(scored[c]) :
          scored' = [scored EXCEPT ![c] = s]
    /\ chosen' = [chosen EXCEPT ![c] = <<>>]
    /\ total_cost' = [total_cost EXCEPT ![c] = 0]
    /\ total_calories' = [total_calories EXCEPT ![c] = 0]
    /\ pos' = [pos EXCEPT ![c] = 1]
    /\ pc' = [pc EXCEPT ![c] = "g_walk"]
    /\ UNCHANGED <<listvars, treevars, food_items, budget, fn, dp, keep, i, w, result, err,
                   verdict>>

\* Lines 67-71: one iteration of the walk over scored.
GreedyWalk(c) ==
    /\ pc[c] = "g_walk"
    /\ pos[c] <= Len(scored[c])
    /\ LET e == scored[c][pos[c]]
           t == Take(chosen[c], total_cost[c], total_calories[c], e)
       IN IF Fits(total_cost[c], e.cost, budget)
          THEN /\ chosen' = [chosen EXCEPT ![c] = t.chosen]
               /\ total_cost' = [total_cost EXCEPT ![c] = t.total_cost]
               /\ total_calories' =
                     [total_calories EXCEPT ![c] = t.total_calories]
          ELSE UNCHANGED <<chosen, total_cost, total_calories>>
    /\ pos' = [pos EXCEPT ![c] = pos[c] + 1]
    /\ UNCHANGED <<listvars, treevars, food_items, budget, fn, pc, scored, dp, keep, i, w,
                   result, err, verdict>>

\* Line 73.
GreedyReturn(c) ==
    /\ pc[c] = "g_walk"
    /\ pos[c] > Len(scored[c])
    /\ result' = [result EXCEPT
                    ![c] = <<SelectionResult(chosen[c], total_cost[c],
                                             total_calories[c])>>]
    /\ pc' = [pc EXCEPT ![c] = "done"]
    /\ UNCHANGED <<listvars, treevars, food_items, budget, fn, scored, pos, chosen, total_cost,
                   total_calories, dp, keep, i, w, err, verdict>>

----------------------------------------------------------------------------
\* dynamic_programming

\* Line 118 with the bound off by one: range(budget, cost, -1).
RangeStopShort(cost) == cost

\* Line 118: range(budget, cost - 1, -1) ends before cost - 1.
RangeStop(cost) == cost - 1

\* Line 119: the item improves dp[w].
\* Line 119 with >= for >.
ImprovesOrTies(with, without) == with >= without

Improves(with, without) == with > without

RECURSIVE InnerLoopAscending(_, _, _, _, _)
\* Lines 118-121 with the weights walked upwards, from stop + 1 to wv.
InnerLoopAscending(st, cost, calories, wv, stop) ==
    IF wv <= stop \/ st.err THEN st
    ELSE LET a == PyIdx(st.dp, stop + 1 - cost)
             b == PyIdx(st.dp, stop + 1)
         IN IF a = 0 \/ b = 0 THEN [st EXCEPT !.err = TRUE]
            ELSE IF st.dp[a] + calories > st.dp[b]
                 THEN InnerLoopAscending(
                          [dp |-> [st.dp EXCEPT ![b] = st.dp[a] + calories],
                           row |-> [st.row EXCEPT ![PyIdx(st.row, stop + 1)] = TRUE],
                           err |-> FALSE],
                          cost, calories, wv, stop + 1)
                 ELSE InnerLoopAscending(st, cost, calories, wv, stop + 1)

RECURSIVE InnerLoop(_, _, _, _, _)
\* Lines 118-121 for one item, from weight wv downwards: st.dp is dp,
\* st.row is keep[i], st.err is set when an index is out of range.
InnerLoop(st, cost, calories, wv, stop) ==
    IF wv <= stop \/ st.err THEN st
    ELSE LET a == PyIdx(st.dp, wv - cost)
             b == PyIdx(st.dp, wv)
         IN IF a = 0 \/ b = 0 THEN [st EXCEPT !.err = TRUE]
            ELSE IF Improves(st.dp[a] + calories, st.dp[b])
                 THEN InnerLoop([dp |-> [st.dp EXCEPT ![b] = st.dp[a] + calories],
                                 row |-> [st.row EXCEPT ![PyIdx(st.row, wv)] = TRUE],
                                 err |-> FALSE],
                                cost, calories, wv - 1, stop)
                 ELSE InnerLoop(st, cost, calories, wv - 1, stop)

\* dynamic_programming(food_items, budget) is called.
CallDP(c) ==
    /\ MayStart(c)
    /\ fn' = [fn EXCEPT ![c] = "dp"]
    /\ pc' = [pc EXCEPT ![c] = "d_alloc"]
    /\ UNCHANGED <<listvars, treevars, food_items, budget, scored, pos, chosen, total_cost,
                   total_calories, dp, keep, i, w, result, err, verdict>>

\* Lines 105-111 with dp and keep kept in one module-level table: the
\* allocation of one call replaces the table under every call.
DPAllocShared(c) ==
    /\ pc[c] = "d_alloc"
    /\ dp' = [d \in Calls |-> PyRepeat(0, budget + 1)]
    /\ keep' = [d \in Calls |->
                  [r \in 1..Len(food_items) |-> PyRepeat(FALSE, budget + 1)]]
    /\ i' = [i EXCEPT ![c] = 1]
    /\ pc' = [pc EXCEPT ![c] = "d_forward"]
    /\ UNCHANGED <<listvars, treevars, food_items, budget, fn, scored, pos,
                   chosen, total_cost, total_calories, w, result, err,
                   verdict>>

\* Lines 105-111: names, n, dp and keep.
DPAlloc(c) ==
    /\ pc[c] = "d_alloc"
    /\ dp' = [dp EXCEPT ![c] = PyRepeat(0, budget + 1)]
    /\ keep' = [keep EXCEPT
                  ![c] = [r \in 1..Len(food_items) |->
                             PyRepeat(FALSE, budget + 1)]]
    /\ i' = [i EXCEPT ![c] = 1]
    /\ pc' = [pc EXCEPT ![c] = "d_forward"]
    /\ UNCHANGED <<listvars, treevars, food_items, budget, fn, scored, pos, chosen, total_cost,
                   total_calories, w, result, err, verdict>>

\* Lines 113-121: the forward pass for item i.
DPForward(c) ==
    /\ pc[c] = "d_forward"
    /\ i[c] <= Len(food_items)
    /\ LET cost == food_items[i[c]].cost
           calories == food_items[i[c]].calories
           st == InnerLoop([dp |-> dp[c], row |-> keep[c][i[c]], err |-> FALSE],
                           cost, calories, budget, RangeStop(cost))
       IN IF st.err
          THEN /\ pc' = [pc EXCEPT ![c] = "raised"]
               /\ err' = [err EXCEPT ![c] = "IndexError"]
               /\ UNCHANGED <<dp, keep, i>>
          ELSE /\ dp' = [dp EXCEPT ![c] = st.dp]
               /\ keep' = [keep EXCEPT ![c][i[c]] = st.row]
               /\ i' = [i EXCEPT ![c] = i[c] + 1]
               /\ UNCHANGED <<pc, err>>
    /\ UNCHANGED <<listvars, treevars, food_items, budget, fn, scored, pos, chosen, total_cost,
                   total_calories, w, result, verdict>>

\* Lines 124-125: the reconstruction starts at the last item with w = budget.
DPBeginRecon(c) ==
    /\ pc[c] = "d_forward"
    /\ i[c] > Len(food_items)
    /\ chosen' = [chosen EXCEPT ![c] = <<>>]
    /\ w' = [w EXCEPT ![c] = budget]
    /\ i' = [i EXCEPT ![c] = Len(food_items)]
    /\ pc' = [pc EXCEPT ![c] = "d_recon"]
    /\ UNCHANGED <<listvars, treevars, food_items, budget, fn, scored, pos, total_cost,
                   total_calories, dp, keep, result, err, verdict>>

\* Lines 126-130: one iteration of the reconstruction.
DPRecon(c) ==
    /\ pc[c] = "d_recon"
    /\ i[c] >= 1
    /\ LET k == PyIdx(keep[c][i[c]], w[c])
       IN IF k = 0
          THEN /\ pc' = [pc EXCEPT ![c] = "raised"]
               /\ err' = [err EXCEPT ![c] = "IndexError"]
               /\ UNCHANGED <<chosen, w, i>>
          ELSE /\ IF keep[c][i[c]][k]
                  THEN /\ chosen' = [chosen EXCEPT ![c] = Append(chosen[c], i[c])]
                       /\ w' = [w EXCEPT ![c] = w[c] - food_items[i[c]].cost]
                  ELSE UNCHANGED <<chosen, w>>
               /\ i' = [i EXCEPT ![c] = i[c] - 1]
               /\ UNCHANGED <<pc, err>>
    /\ UNCHANGED <<listvars, treevars, food_items, budget, fn, scored, pos, total_cost,
                   total_calories, dp, keep, result, verdict>>

\* Lines 132-137: reverse, sum up, return.
DPReturn(c) ==
    /\ pc[c] = "d_recon"
    /\ i[c] < 1
    /\ LET ch == Reverse(chosen[c])
           tc == SumCost(food_items, ch)
           tcal == SumCalories(food_items, ch)
       IN /\ chosen' = [chosen EXCEPT ![c] = ch]
          /\ total_cost' = [total_cost EXCEPT ![c] = tc]
          /\ total_calories' = [total_calories EXCEPT ![c] = tcal]
          /\ result' = [result EXCEPT ![c] = <<SelectionResult(ch, tc, tcal)>>]
    /\ pc' = [pc EXCEPT ![c] = "done"]
    /\ UNCHANGED <<listvars, treevars, food_items, budget, fn, scored, pos, dp, keep, i, w, err,
                   verdict>>

----------------------------------------------------------------------------
\* demo_for_budget

\* Lines 172-186: the branch taken on diff_cal, once greedy_algorithm (the
\* first call) and dynamic_programming (the second) have returned.
DemoCompare ==
    /\ verdict = "none"
    /\ fn[1] = "greedy" /\ pc[1] = "done"
    /\ fn[2] = "dp" /\ pc[2] = "done"
    /\ LET diff_cal == result[2][1].total_calories
                         - result[1][1].total_calories
       IN verdict' = IF diff_cal > 0 THEN "dp_more"
                     ELSE IF diff_cal = 0 THEN "equal"
                     ELSE "greedy_more"
    /\ UNCHANGED <<listvars, treevars, food_items, budget, fn, pc, scored, pos, chosen,
                   total_cost, total_calories, dp, keep, i, w, result, err>>

----------------------------------------------------------------------------
\* Specification

\* No call of a selector has been made.
NoCall ==
    /\ fn = [c \in Calls |-> "none"]
    /\ pc = [c \in Calls |-> "idle"]
    /\ scored = [c \in Calls |-> <<>>]
    /\ pos = [c \in Calls |-> 0]
    /\ chosen = [c \in Calls |-> <<>>]
    /\ total_cost = [c \in Calls |-> 0]
    /\ total_calories = [c \in Calls |-> 0]
    /\ dp = [c \in Calls |-> <<>>]
    /\ keep = [c \in Calls |-> <<>>]
    /\ i = [c \in Calls |-> 0]
    /\ w = [c \in Calls |-> 0]
    /\ result = [c \in Calls |-> <<>>]
    /\ err = [c \in Calls |-> "none"]
    /\ verdict = "none"

\* The names of the LinkedList objects; a list that does not exist yet has
\* the head Absent, an empty list the head 0 (None).
Lists == {"first", "second", "merged"}

Absent == 0 - 1

\* The linked-list script is not run.
ListIdle ==
    /\ nodes = <<>>
    /\ heads = [l \in Lists |-> Absent]
    /\ last_op = [op |-> "none", a |-> "none", b |-> "none", hang |-> FALSE]
    /\ before = [l \in Lists |-> <<>>]

\* The traversal script is not run.
TreeIdle ==
    /\ tree = {}
    /\ tfn = "none"
    /\ tpc = "idle"
    /\ order = <<>>
    /\ stack = <<>>
    /\ queue = <<>>

Init ==
    /\ food_items \in Catalogs
    /\ budget \in Budgets
    /\ NoCall
    /\ ListIdle
    /\ TreeIdle

Next ==
    \/ \E c \in Calls : CallGreedy(c)
    \/ \E c \in Calls : GreedyScore(c)
    \/ \E c \in Calls : GreedySort(c)
    \/ \E c \in Calls : GreedyWalk(c)
    \/ \E c \in Calls : GreedyReturn(c)
    \/ \E c \in Calls : CallDP(c)
    \/ \E c \in Calls : DPAlloc(c)
    \/ \E c \in Calls : DPForward(c)
    \/ \E c \in Calls : DPBeginRecon(c)
    \/ \E c \in Calls : DPRecon(c)
    \/ \E c \in Calls : DPReturn(c)
    \/ DemoCompare

Spec == Init /\ [][Next]_vars

----------------------------------------------------------------------------
\* Calls that overlap in time

\* greedy_algorithm(food_items, budget) is called while other calls may be
\* under way.
CallGreedyConcurrently(c) ==
    /\ pc[c] = "idle"
    /\ fn' = [fn EXCEPT ![c] = "greedy"]
    /\ pc' = [pc EXCEPT ![c] = "g_score"]
    /\ UNCHANGED <<listvars, treevars, food_items, budget, scored, pos,
                   chosen, total_cost, total_calories, dp, keep, i, w,
                   result, err, verdict>>

\* dynamic_programming(food_items, budget) is called while other calls may
\* be under way.
CallDPConcurrently(c) ==
    /\ pc[c] = "idle"
    /\ fn' = [fn EXCEPT ![c] = "dp"]
    /\ pc' = [pc EXCEPT ![c] = "d_alloc"]
    /\ UNCHANGED <<listvars, treevars, food_items, budget, scored, pos,
                   chosen, total_cost, total_calories, dp, keep, i, w,
                   result, err, verdict>>

\* The steps of the calls are interleaved in any order.
NextConc ==
    \/ \E c \in Calls : CallGreedyConcurrently(c)
    \/ \E c \in Calls : GreedyScore(c)
    \/ \E c \in Calls : GreedySort(c)
    \/ \E c \in Calls : GreedyWalk(c)
    \/ \E c \in Calls : GreedyReturn(c)
    \/ \E c \in Calls : CallDPConcurrently(c)
    \/ \E c \in Calls : DPAlloc(c)
    \/ \E c \in Calls : DPForward(c)
    \/ \E c \in Calls : DPBeginRecon(c)
    \/ \E c \in Calls : DPRecon(c)
    \/ \E c \in Calls : DPReturn(c)

\* The catalogs whose items all have a benefit: the interleavings multiply
\* the states, so the overlapping calls run over these.
BeneficialCatalogs ==
    {cat \in Catalogs : \A k \in 1..Len(cat) : cat[k].calories >= 1}

InitConc ==
    /\ food_items \in BeneficialCatalogs
    /\ budget \in (0 - 1)..MaxBudget
    /\ NoCall
    /\ ListIdle
    /\ TreeIdle

SpecConc == InitConc /\ [][NextConc]_vars

----------------------------------------------------------------------------
\* Catalogs with degenerate items

\* Line 54 tests cost <= 0: an item may come with a cost of 0 or below.
DegenerateItems == [cost : (0 - 1)..MaxCost, calories : 0..MaxCalories]

\* The catalogs with at least one item of cost <= 0.
DegenerateCatalogs ==
    {cat \in UNION {[1..n -> DegenerateItems] : n \in 1..MaxItems} :
        \E k \in 1..Len(cat) : cat[k].cost <= 0}

InitDegenerate ==
    /\ food_items \in DegenerateCatalogs
    /\ budget \in (0 - 1)..MaxBudget
    /\ NoCall
    /\ ListIdle
    /\ TreeIdle

SpecDegenerate == InitDegenerate /\ [][Next]_vars

----------------------------------------------------------------------------
\* task_1_linked_list.py
\*
\* A Node object is a position of the heap nodes, a record of its value and
\* its next (0 is None); Node(...) appends to the heap.  The loops of the
\* script are recursive operators.  Those that relink nodes carry a count of
\* the iterations they may still make (fuel): a loop that would never end in
\* Python ends here with hang set.

\* Node(value)
Node(value) == [value |-> value, next |-> 0]

\* n.next = x
SetNext(h, n, x) == [h EXCEPT ![n].next = x]

RECURSIVE LastNode(_, _, _)
\* Lines 31-33: the node whose next is None, from current onwards.
LastNode(h, current, fuel) ==
    IF h[current].next = 0 \/ fuel = 0 THEN current
    ELSE LastNode(h, h[current].next, fuel - 1)

\* Lines 25-34: LinkedList.append on the list with head st.head.
AppendValue(st, value) ==
    LET new_node == Len(st.h) + 1
        h1 == Append(st.h, Node(value))
    IN IF st.head = 0 THEN [h |-> h1, head |-> new_node]
       ELSE [h |-> SetNext(h1, LastNode(h1, st.head, Len(h1)), new_node),
             head |-> st.head]

RECURSIVE NewList(_, _)
\* Lines 16-23: LinkedList(values) on the heap h.
NewList(h, values) ==
    IF values = <<>> THEN [h |-> h, head |-> 0]
    ELSE AppendValue(NewList(h, SubSeq(values, 1, Len(values) - 1)),
                     values[Len(values)])

RECURSIVE WalkValues(_, _, _)
\* Lines 40-42.
WalkValues(h, current, fuel) ==
    IF current = 0 \/ fuel = 0 THEN <<>>
    ELSE <<h[current].value>> \o WalkValues(h, h[current].next, fuel - 1)

\* Lines 36-43: LinkedList.to_list.
ToList(h, head) == WalkValues(h, head, Len(h))

RECURSIVE CopyLoop(_, _, _, _)
\* Lines 79-82.
CopyLoop(h, current_old, current_new, fuel) ==
    IF current_old = 0 \/ fuel = 0 THEN h
    ELSE LET new_node == Len(h) + 1
             h1 == SetNext(Append(h, Node(h[current_old].value)),
                           current_new, new_node)
         IN CopyLoop(h1, h[current_old].next, new_node, fuel - 1)

\* copy_list that hands back the list it was given.
NoCopy(h, head) == [h |-> h, head |-> head]

\* Lines 72-83: copy_list.
CopyList(h, head) ==
    IF head = 0 THEN [h |-> h, head |-> 0]
    ELSE LET new_head == Len(h) + 1
         IN [h |-> CopyLoop(Append(h, Node(h[head].value)), h[head].next,
                            new_head, Len(h)),
             head |-> new_head]

\* Line 95 with the comparison turned round.
TakesFirstReversed(v1, v2) == v1 >= v2

\* Line 95: l1.value <= l2.value.
TakesFirst(v1, v2) == v1 <= v2

\* tail.next = x, where tail 0 is the local dummy node of line 91: its next
\* is kept in st.first.
LinkAfterTail(st, x) ==
    IF st.tail = 0 THEN [st EXCEPT !.first = x]
    ELSE [st EXCEPT !.h = SetNext(st.h, st.tail, x)]

RECURSIVE MergeLoop(_, _, _, _)
\* Lines 94-105.
MergeLoop(st, l1, l2, fuel) ==
    IF l1 # 0 /\ l2 # 0
    THEN IF fuel = 0 THEN [st EXCEPT !.hang = TRUE]
         ELSE IF TakesFirst(st.h[l1].value, st.h[l2].value)
              THEN LET s1 == LinkAfterTail(st, l1)
                   IN MergeLoop([s1 EXCEPT !.tail = l1],
                                s1.h[l1].next, l2, fuel - 1)
              ELSE LET s1 == LinkAfterTail(st, l2)
                   IN MergeLoop([s1 EXCEPT !.tail = l2],
                                l1, s1.h[l2].next, fuel - 1)
    ELSE LinkAfterTail(st, IF l1 # 0 THEN l1 ELSE l2)

\* Lines 86-105: merge_two_sorted_lists.
MergeTwoSortedLists(h, l1, l2) ==
    LET st == MergeLoop([h |-> h, first |-> 0, tail |-> 0, hang |-> FALSE],
                        l1, l2, 2 * Len(h))
    IN [h |-> st.h, head |-> st.first, hang |-> st.hang]

RECURSIVE SplitWalk(_, _, _, _)
\* Lines 119-121: the node slow ends on.
SplitWalk(h, slow, fast, fuel) ==
    IF fast # 0 /\ h[fast].next # 0 /\ fuel > 0
    THEN SplitWalk(h, h[slow].next, h[h[fast].next].next, fuel - 1)
    ELSE slow

\* Line 124 left out: the list is not cut.
SplitListUncut(h, head) ==
    IF head = 0 \/ h[head].next = 0
    THEN [h |-> h, left |-> head, right |-> 0]
    ELSE LET slow == SplitWalk(h, head, h[head].next, Len(h))
         IN [h |-> h, left |-> head, right |-> h[slow].next]

\* Lines 108-126: split_list.
SplitList(h, head) ==
    IF head = 0 \/ h[head].next = 0
    THEN [h |-> h, left |-> head, right |-> 0]
    ELSE LET slow == SplitWalk(h, head, h[head].next, Len(h))
         IN [h |-> SetNext(h, slow, 0), left |-> head, right |-> h[slow].next]

RECURSIVE MergeSortList(_, _, _)
\* Lines 129-137: merge_sort_list; depth is the number of nested calls that
\* may still be made.
MergeSortList(h, head, depth) ==
    IF head = 0 THEN [h |-> h, head |-> head, hang |-> FALSE]
    ELSE IF h[head].next = 0 THEN [h |-> h, head |-> head, hang |-> FALSE]
    ELSE IF depth = 0 THEN [h |-> h, head |-> head, hang |-> TRUE]
    ELSE LET sp == SplitList(h, head)
             left_sorted == MergeSortList(sp.h, sp.left, depth - 1)
             right_sorted == MergeSortList(left_sorted.h, sp.right, depth - 1)
             merged == MergeTwoSortedLists(right_sorted.h, left_sorted.head,
                                           right_sorted.head)
         IN [h |-> merged.h, head |-> merged.head,
             hang |-> left_sorted.hang \/ right_sorted.hang \/ merged.hang]

\* to_list() of every list that exists.
Snapshot == [l \in Lists |-> IF heads[l] = Absent THEN <<>>
                             ELSE ToList(nodes, heads[l])]

\* Lines 56-58: l.sort(), before the lists are merged (lines 156-158).
\* last_op.hang says that the call never returns.
Sort(l) ==
    /\ heads[l] # Absent
    /\ heads["merged"] = Absent
    /\ ~last_op.hang
    /\ LET r == MergeSortList(nodes, heads[l], Len(nodes))
       IN /\ nodes' = r.h
          /\ heads' = [heads EXCEPT ![l] = r.head]
          /\ last_op' = [op |-> "sort", a |-> l, b |-> l, hang |-> r.hang]
    /\ before' = Snapshot
    /\ UNCHANGED <<selvars, treevars>>

\* Lines 60-69: merged = LinkedList.merge_sorted(a, b); a and b may be the
\* same object.
MergeSorted(a, b) ==
    /\ heads[a] # Absent /\ heads[b] # Absent
    /\ a # "merged" /\ b # "merged"
    /\ heads["merged"] = Absent
    /\ ~last_op.hang
    /\ LET c1 == CopyList(nodes, heads[a])
           c2 == CopyList(c1.h, heads[b])
           r == MergeTwoSortedLists(c2.h, c1.head, c2.head)
       IN /\ nodes' = r.h
          /\ heads' = [heads EXCEPT !["merged"] = r.head]
          /\ last_op' = [op |-> "merge", a |-> a, b |-> b, hang |-> r.hang]
    /\ before' = Snapshot
    /\ UNCHANGED <<selvars, treevars>>

\* The value sequences the lists are made from.
Values == UNION {[1..n -> 1..MaxValue] : n \in 0..MaxLen}

\* Lines 154-155: l1 = LinkedList(...), l2 = LinkedList(...).
InitList ==
    /\ \E v1, v2 \in Values :
          LET l1 == NewList(<<>>, v1)
              l2 == NewList(l1.h, v2)
          IN /\ nodes = l2.h
             /\ heads = [l \in Lists |-> IF l = "first" THEN l1.head
                                         ELSE IF l = "second" THEN l2.head
                                         ELSE Absent]
    /\ last_op = [op |-> "none", a |-> "none", b |-> "none", hang |-> FALSE]
    /\ before = [l \in Lists |-> <<>>]
    /\ food_items = <<>>
    /\ budget = 0
    /\ NoCall
    /\ TreeIdle

NextList ==
    \/ \E l \in Lists : Sort(l)
    \/ \E a, b \in Lists : MergeSorted(a, b)

SpecList == InitList /\ [][NextList]_vars

----------------------------------------------------------------------------
\* task_5_dfs_bfs_visualization.py
\*
\* A Node object is the path that leads to it from the root: the empty
\* sequence is the root, 0 goes to node.left and 1 to node.right.  A tree is
\* the set of its nodes; the empty set is the root None.  A Node object is
\* true in "if node.left:", only None is false.

RECURSIVE TreesOfSize(_)
\* Lines 17-32: the binary trees of n nodes.
TreesOfSize(n) ==
    IF n = 0 THEN {{}}
    ELSE UNION {{{<<>>} \cup {<<0>> \o x : x \in L} \cup {<<1>> \o x : x \in R} :
                    L \in TreesOfSize(a), R \in TreesOfSize(n - 1 - a)} :
                a \in 0..(n - 1)}

Trees == UNION {TreesOfSize(n) : n \in 0..MaxNodes}

\* node.left and node.right
LeftOf(node) == Append(node, 0)

RightOf(node) == Append(node, 1)

\* Lines 191-194 with the children pushed left first.
PushChildrenLeftFirst(stk, node) ==
    LET s1 == IF LeftOf(node) \in tree THEN Append(stk, LeftOf(node)) ELSE stk
    IN IF RightOf(node) \in tree THEN Append(s1, RightOf(node)) ELSE s1

\* Lines 191-194: the right child is pushed, then the left one.
PushChildren(stk, node) ==
    LET s1 == IF RightOf(node) \in tree THEN Append(stk, RightOf(node)) ELSE stk
    IN IF LeftOf(node) \in tree THEN Append(s1, LeftOf(node)) ELSE s1

\* Lines 215-218 with the children appended right first.
EnqueueChildrenRightFirst(q, node) ==
    LET q1 == IF RightOf(node) \in tree THEN Append(q, RightOf(node)) ELSE q
    IN IF LeftOf(node) \in tree THEN Append(q1, LeftOf(node)) ELSE q1

\* Lines 215-218: the left child is appended, then the right one.
EnqueueChildren(q, node) ==
    LET q1 == IF LeftOf(node) \in tree THEN Append(q, LeftOf(node)) ELSE q
    IN IF RightOf(node) \in tree THEN Append(q1, RightOf(node)) ELSE q1

\* traverse_dfs(root) is called.
CallDFS ==
    /\ tpc = "idle"
    /\ tfn' = "dfs"
    /\ tpc' = "t_entry"
    /\ UNCHANGED <<selvars, listvars, tree, order, stack, queue>>

\* Lines 181-185.
DFSEnter ==
    /\ tfn = "dfs" /\ tpc = "t_entry"
    /\ order' = <<>>
    /\ IF tree = {}
       THEN tpc' = "done" /\ UNCHANGED stack
       ELSE tpc' = "t_loop" /\ stack' = <<<<>>>>
    /\ UNCHANGED <<selvars, listvars, tree, tfn, queue>>

\* Lines 187-194: one iteration of the loop.
DFSStep ==
    /\ tfn = "dfs" /\ tpc = "t_loop"
    /\ stack # <<>>
    /\ LET node == stack[Len(stack)]
       IN /\ order' = Append(order, node)
          /\ stack' = PushChildren(SubSeq(stack, 1, Len(stack) - 1), node)
    /\ UNCHANGED <<selvars, listvars, tree, tfn, tpc, queue>>

\* Line 196.
DFSReturn ==
    /\ tfn = "dfs" /\ tpc = "t_loop"
    /\ stack = <<>>
    /\ tpc' = "done"
    /\ UNCHANGED <<selvars, listvars, tree, tfn, order, stack, queue>>

\* traverse_bfs(root) is called.
CallBFS ==
    /\ tpc = "idle"
    /\ tfn' = "bfs"
    /\ tpc' = "t_entry"
    /\ UNCHANGED <<selvars, listvars, tree, order, stack, queue>>

\* Lines 206-210.
BFSEnter ==
    /\ tfn = "bfs" /\ tpc = "t_entry"
    /\ order' = <<>>
    /\ IF tree = {}
       THEN tpc' = "done" /\ UNCHANGED queue
       ELSE tpc' = "t_loop" /\ queue' = <<<<>>>>
    /\ UNCHANGED <<selvars, listvars, tree, tfn, stack>>

\* Lines 212-218: one iteration of the loop.
BFSStep ==
    /\ tfn = "bfs" /\ tpc = "t_loop"
    /\ queue # <<>>
    /\ LET node == Head(queue)
       IN /\ order' = Append(order, node)
          /\ queue' = EnqueueChildren(Tail(queue), node)
    /\ UNCHANGED <<selvars, listvars, tree, tfn, tpc, stack>>

\* Line 220.
BFSReturn ==
    /\ tfn = "bfs" /\ tpc = "t_loop"
    /\ queue = <<>>
    /\ tpc' = "done"
    /\ UNCHANGED <<selvars, listvars, tree, tfn, order, stack, queue>>

InitTree ==
    /\ tree \in Trees
    /\ tfn = "none"
    /\ tpc = "idle"
    /\ order = <<>>
    /\ stack = <<>>
    /\ queue = <<>>
    /\ food_items = <<>>
    /\ budget = 0
    /\ NoCall
    /\ ListIdle

NextTree ==
    \/ CallDFS
    \/ DFSEnter
    \/ DFSStep
    \/ DFSReturn
    \/ CallBFS
    \/ BFSEnter
    \/ BFSStep
    \/ BFSReturn

SpecTree == InitTree /\ [][NextTree]_vars

----------------------------------------------------------------------------
\* A call run from entry to exit without any other call

\* How a call ends: returned with a result, or raised.
Outcome(p, x, r) == [pc |-> p, err |-> x, result |-> r]

RECURSIVE WalkAll(_, _, _, _)
\* Lines 67-71 from position k of the sorted list s to its end.
WalkAll(s, k, acc, b) ==
    IF k > Len(s) THEN acc
    ELSE WalkAll(s, k + 1,
                 IF Fits(acc.total_cost, s[k].cost, b)
                 THEN Take(acc.chosen, acc.total_cost, acc.total_calories, s[k])
                 ELSE acc,
                 b)

\* Lines 50-73.
GreedyAlone(cat, b) ==
    IF DivByZero(cat) THEN Outcome("raised", "ZeroDivisionError", <<>>)
    ELSE LET acc == WalkAll(SortDesc(Scored(cat, Len(cat))), 1,
                            [chosen |-> <<>>, total_cost |-> 0,
                             total_calories |-> 0], b)
         IN Outcome("done", "none",
                    <<SelectionResult(acc.chosen, acc.total_cost,
                                      acc.total_calories)>>)

RECURSIVE ForwardAll(_, _, _, _)
\* Lines 113-121 from item k to the last one: st.dp is dp, st.keep is keep.
ForwardAll(st, cat, b, k) ==
    IF k > Len(cat) \/ st.err THEN st
    ELSE LET r == InnerLoop([dp |-> st.dp, row |-> st.keep[k], err |-> FALSE],
                            cat[k].cost, cat[k].calories, b,
                            RangeStop(cat[k].cost))
         IN ForwardAll([dp |-> r.dp, keep |-> [st.keep EXCEPT ![k] = r.row],
                        err |-> r.err],
                       cat, b, k + 1)

RECURSIVE ReconAll(_, _, _, _, _)
\* Lines 126-130 from item k down to the first one.
ReconAll(kp, cat, k, wv, ch) ==
    IF k < 1 THEN [chosen |-> ch, err |-> FALSE]
    ELSE LET x == PyIdx(kp[k], wv)
         IN IF x = 0 THEN [chosen |-> ch, err |-> TRUE]
            ELSE IF kp[k][x]
                 THEN ReconAll(kp, cat, k - 1, wv - cat[k].cost, Append(ch, k))
                 ELSE ReconAll(kp, cat, k - 1, wv, ch)

\* Lines 105-137.
DPAlone(cat, b) ==
    LET f == ForwardAll([dp |-> PyRepeat(0, b + 1),
                         keep |-> [r \in 1..Len(cat) |-> PyRepeat(FALSE, b + 1)],
                         err |-> FALSE],
                        cat, b, 1)
    IN IF f.err THEN Outcome("raised", "IndexError", <<>>)
       ELSE LET r == ReconAll(f.keep, cat, Len(cat), b, <<>>)
                ch == Reverse(r.chosen)
            IN IF r.err THEN Outcome("raised", "IndexError", <<>>)
               ELSE Outcome("done", "none",
                            <<SelectionResult(ch, SumCost(cat, ch),
                                              SumCalories(cat, ch))>>)

\* What call c returns or raises when it is the only call.
Alone(c) ==
    IF fn[c] = "greedy" THEN GreedyAlone(food_items, budget)
    ELSE DPAlone(food_items, budget)

----------------------------------------------------------------------------
\* Vocabulary of the properties

Returned(c) == pc[c] = "done"

Res(c) == result[c][1]

Range(s) == {s[j] : j \in 1..Len(s)}

Names == 1..Len(food_items)

RECURSIVE CostOf(_)
\* The summed cost of a set of names.
CostOf(S) ==
    IF S = {} THEN 0
    ELSE LET k == CHOOSE x \in S : TRUE
         IN food_items[k].cost + CostOf(S \ {k})

RECURSIVE CaloriesOf(_)
\* The summed benefit of a set of names.
CaloriesOf(S) ==
    IF S = {} THEN 0
    ELSE LET k == CHOOSE x \in S : TRUE
         IN food_items[k].calories + CaloriesOf(S \ {k})

\* The subsets of the catalog that the budget pays for.
Affordable == {S \in SUBSET Names : CostOf(S) <= budget}

\* The largest benefit of an affordable subset (budget >= 0).
BestCalories ==
    CHOOSE m \in {CaloriesOf(S) : S \in Affordable} :
        \A S \in Affordable : CaloriesOf(S) <= m

NoDuplicates(s) == \A a, b \in 1..Len(s) : a # b => s[a] # s[b]

Increasing(s) == \A a, b \in 1..Len(s) : a < b => s[a] < s[b]

EmptyResult(r) ==
    r.items = <<>> /\ r.total_cost = 0 /\ r.total_calories = 0

----------------------------------------------------------------------------
\* C1: for a budget >= 0, dynamic_programming returns, and its
\* total_calories is the largest summed benefit of any subset of the catalog
\* (each item at most once) whose summed cost is within the budget.
C1_ExactIsOptimal ==
    \A c \in Calls :
        (fn[c] = "dp" /\ budget >= 0) =>
            /\ pc[c] # "raised"
            /\ Returned(c) => Res(c).total_calories = BestCalories

\* A returned exact selection that had to leave a beneficial item out.
C1_Witness ==
    \E c \in Calls :
        /\ fn[c] = "dp" /\ Returned(c) /\ budget > 0
        /\ Res(c).total_calories > 0
        /\ \E k \in Names : food_items[k].calories > 0 /\ k \notin Range(Res(c).items)

\* C2: for a budget >= 0, the total_cost of a result of either selector is
\* at most the budget.
C2_BudgetBound ==
    \A c \in Calls :
        (Returned(c) /\ budget >= 0) => Res(c).total_cost <= budget

\* Both selectors returned on a catalog that costs more than the budget.
C2_Witness ==
    /\ budget >= 0 /\ CostOf(Names) > budget
    /\ \E c, d \in Calls :
          /\ fn[c] = "greedy" /\ Returned(c) /\ Res(c).total_cost > 0
          /\ fn[d] = "dp" /\ Returned(d) /\ Res(d).total_cost > 0

C4_InvalidBudget ==
    \A c \in Calls :
        (fn[c] = "dp" /\ budget < 0) =>
            /\ pc[c] \in {"d_alloc", "raised"}
            /\ pc[c] = "raised" =>
                  (err[c] = "InvalidBudget" /\ dp[c] = <<>> /\ keep[c] = <<>>)
            /\ result[c] = <<>>

\* The names of the items with a positive cost, and with a positive benefit.
Priced == {k \in Names : food_items[k].cost > 0}

Beneficial == {k \in Names : food_items[k].calories > 0}

\* C5 as stated: with budget >= the cost of the whole catalog, both
\* selectors return every item, with the totals of the whole catalog.
C5_SaturationAllItems ==
    \A c \in Calls :
        (Returned(c) /\ budget >= CostOf(Names)) =>
            /\ Range(Res(c).items) = Names
            /\ Res(c).total_cost = CostOf(Names)
            /\ Res(c).total_calories = CaloriesOf(Names)

\* C5 amended: with budget >= the cost of the whole catalog, the greedy
\* selector returns exactly the items of positive cost and the exact selector
\* exactly the items of positive benefit, with the totals of those items.
C5_Saturation ==
    \A c \in Calls :
        (Returned(c) /\ budget >= CostOf(Names)) =>
            /\ fn[c] = "greedy" =>
                  /\ Range(Res(c).items) = Priced
                  /\ Res(c).total_cost = CostOf(Names)
                  /\ Res(c).total_calories = CaloriesOf(Priced)
            /\ fn[c] = "dp" =>
                  /\ Range(Res(c).items) = Beneficial
                  /\ Res(c).total_cost = CostOf(Beneficial)
                  /\ Res(c).total_calories = CaloriesOf(Names)

\* Both selectors returned the whole of a catalog of two or more items that
\* the budget pays for.
C5_Witness ==
    /\ Len(food_items) >= 2 /\ budget >= CostOf(Names)
    /\ Priced = Names /\ Beneficial = Names
    /\ \E c, d \in Calls :
          /\ fn[c] = "greedy" /\ Returned(c) /\ Range(Res(c).items) = Names
          /\ fn[d] = "dp" /\ Returned(d) /\ Range(Res(d).items) = Names

\* C6: when every item costs more than the budget and the budget is >= 0
\* (so no item is free), both selectors return the empty selection with zero
\* totals.
C6_InsufficientBudget ==
    \A c \in Calls :
        (/\ Returned(c)
         /\ budget >= 0
         /\ \A k \in Names : food_items[k].cost > budget) =>
            EmptyResult(Res(c))

\* Both selectors returned on a positive budget below every cost.
C6_Witness ==
    /\ budget > 0 /\ Len(food_items) >= 2
    /\ \A k \in Names : food_items[k].cost > budget /\ food_items[k].calories > 0
    /\ \E c, d \in Calls :
          /\ fn[c] = "greedy" /\ Returned(c)
          /\ fn[d] = "dp" /\ Returned(d)

\* C7 as stated: with an empty catalog or a budget of 0, both selectors
\* return the empty selection with zero totals.
C7_EmptyOrZeroAllEmpty ==
    \A c \in Calls :
        (Returned(c) /\ (food_items = <<>> \/ budget = 0)) =>
            EmptyResult(Res(c))

\* The free items that have a benefit.
FreeBeneficial == {k \in Names : food_items[k].cost = 0 /\ food_items[k].calories > 0}

\* C7 amended: with an empty catalog or a budget of 0, the greedy selector
\* returns the empty selection with zero totals, and the exact selector
\* returns exactly the free items of positive benefit, at total_cost 0.
C7_EmptyOrZero ==
    \A c \in Calls :
        (Returned(c) /\ (food_items = <<>> \/ budget = 0)) =>
            /\ fn[c] = "greedy" => EmptyResult(Res(c))
            /\ fn[c] = "dp" =>
                  /\ Range(Res(c).items) = FreeBeneficial
                  /\ Res(c).total_cost = 0
                  /\ Res(c).total_calories = CaloriesOf(FreeBeneficial)

\* Both selectors returned on a budget of 0 over a catalog with a free
\* beneficial item and a priced one.
C7_Witness ==
    /\ budget = 0
    /\ FreeBeneficial # {} /\ Priced # {}
    /\ \E c, d \in Calls :
          /\ fn[c] = "greedy" /\ Returned(c)
          /\ fn[d] = "dp" /\ Returned(d) /\ Res(d).items # <<>>

\* C8 as stated: in the result of either selector the names are in catalog
\* insertion order.
C8_InsertionOrderBoth ==
    \A c \in Calls : Returned(c) => Increasing(Res(c).items)

\* Item a ranks before item b for the greedy selector: a higher
\* benefit/cost ratio, or the same ratio and inserted earlier.
RanksBefore(a, b) ==
    LET x == food_items[a]
        y == food_items[b]
    IN \/ x.calories * y.cost > y.calories * x.cost
       \/ x.calories * y.cost = y.calories * x.cost /\ a < b

\* C8 amended: the names in the result of the exact selector are in catalog
\* insertion order; the names in the result of the greedy selector are in
\* the order of descending benefit/cost ratio, equal ratios in insertion
\* order.
C8_ResultOrder ==
    \A c \in Calls :
        Returned(c) =>
            /\ fn[c] = "dp" => Increasing(Res(c).items)
            /\ fn[c] = "greedy" =>
                  \A a, b \in 1..Len(Res(c).items) :
                      a < b => RanksBefore(Res(c).items[a], Res(c).items[b])

\* The two selectors returned the same two or more items in different
\* orders.
C8_Witness ==
    \E c, d \in Calls :
        /\ fn[c] = "greedy" /\ Returned(c)
        /\ fn[d] = "dp" /\ Returned(d)
        /\ Len(Res(d).items) >= 2
        /\ Range(Res(c).items) = Range(Res(d).items)
        /\ Res(c).items # Res(d).items

\* C9: in a result of either selector no name occurs twice, total_cost is
\* the summed cost and total_calories the summed benefit of the names.
C9_SumConsistency ==
    \A c \in Calls :
        Returned(c) =>
            /\ NoDuplicates(Res(c).items)
            /\ Range(Res(c).items) \subseteq Names
            /\ Res(c).total_cost = CostOf(Range(Res(c).items))
            /\ Res(c).total_calories = CaloriesOf(Range(Res(c).items))

\* Both selectors returned items whose cost and benefit sums differ.
C9_Witness ==
    \E c, d \in Calls :
        /\ fn[c] = "greedy" /\ Returned(c) /\ Len(Res(c).items) >= 2
        /\ Res(c).total_cost # Res(c).total_calories
        /\ fn[d] = "dp" /\ Returned(d) /\ Len(Res(d).items) >= 2
        /\ Res(d).total_cost # Res(d).total_calories

C11_CatalogUnchanged == [][food_items' = food_items]_vars

\* One call has returned and another has raised, over a catalog of two
\* items.
C11_Witness ==
    /\ Len(food_items) >= 2
    /\ \E c, d \in Calls : Returned(c) /\ pc[d] = "raised"

\* C12: with the steps of the calls interleaved in any order, every call
\* ends as it ends when it runs alone: the same result, or the same error.
C12_ConcurrentAsAlone ==
    \A c \in Calls :
        Finished(c) =>
            LET alone == Alone(c)
            IN /\ pc[c] = alone.pc
               /\ err[c] = alone.err
               /\ result[c] = alone.result

\* Call 2 returned a non-empty selection before call 1, which had started
\* first and was overtaken in the middle of its body, has finished.
C12_Witness ==
    /\ Returned(2) /\ Res(2).items # <<>>
    /\ pc[1] \in {"g_walk", "d_forward", "d_recon"}
    /\ fn[1] = "dp" => i[1] >= 1 /\ i[1] <= Len(food_items) /\ dp[1] # dp[2]

----------------------------------------------------------------------------
\* Vocabulary of the linked-list properties

NonDecreasing(s) == \A a, b \in 1..Len(s) : a < b => s[a] <= s[b]

\* How often v occurs in s.
Count(s, v) == Cardinality({j \in 1..Len(s) : s[j] = v})

\* s holds the values of t and of u together, each as often.
SameValues(s, t, u) ==
    /\ Len(s) = Len(t) + Len(u)
    /\ \A v \in Range(s) \cup Range(t) \cup Range(u) :
          Count(s, v) = Count(t, v) + Count(u, v)

RECURSIVE NodesFrom(_, _, _)
\* The nodes of the list that starts at current.
NodesFrom(h, current, fuel) ==
    IF current = 0 \/ fuel = 0 THEN {}
    ELSE {current} \cup NodesFrom(h, h[current].next, fuel - 1)

NodesOf(l) == NodesFrom(nodes, heads[l], Len(nodes))

RECURSIVE ReachesNone(_, _, _)
ReachesNone(h, current, fuel) ==
    \/ current = 0
    \/ fuel > 0 /\ ReachesNone(h, h[current].next, fuel - 1)

\* The chain from the head of l ends in None, so that to_list() returns.
EndsInNone(l) == ReachesNone(nodes, heads[l], Len(nodes))

Now(l) == ToList(nodes, heads[l])

\* C13: l.sort() returns, and then to_list() of l is in non-decreasing order
\* and holds the values it held before the call, each as often.
C13_SortSortsAndPermutes ==
    last_op.op = "sort" =>
        /\ ~last_op.hang
        /\ EndsInNone(last_op.a)
        /\ NonDecreasing(Now(last_op.a))
        /\ SameValues(Now(last_op.a), before[last_op.a], <<>>)

\* A list of three values that were out of order, one of them twice, has
\* been sorted.
C13_Witness ==
    /\ last_op.op = "sort"
    /\ Len(before[last_op.a]) >= 3
    /\ ~NonDecreasing(before[last_op.a])
    /\ Cardinality(Range(before[last_op.a])) < Len(before[last_op.a])
    /\ Now(last_op.a) # before[last_op.a]

\* C14: merge_sorted of two lists that are in non-decreasing order returns a
\* list in non-decreasing order that holds the values of both lists, each as
\* often as the two together.
C14_MergeSorted ==
    (/\ last_op.op = "merge"
     /\ NonDecreasing(before[last_op.a])
     /\ NonDecreasing(before[last_op.b])) =>
        /\ ~last_op.hang
        /\ EndsInNone("merged")
        /\ NonDecreasing(Now("merged"))
        /\ SameValues(Now("merged"), before[last_op.a], before[last_op.b])

\* Two different sorted lists were merged and their values interleave.
C14_Witness ==
    /\ last_op.op = "merge" /\ last_op.a # last_op.b
    /\ NonDecreasing(before["first"]) /\ NonDecreasing(before["second"])
    /\ Len(before["first"]) >= 2 /\ Len(before["second"]) >= 2
    /\ Now("merged") # before["first"] \o before["second"]
    /\ Now("merged") # before["second"] \o before["first"]

\* C15: merge_sorted leaves to_list() of both arguments as it was, and the
\* list it returns has no node in common with either, also when the two
\* arguments are the same list.
C15_MergeLeavesInputs ==
    last_op.op = "merge" =>
        /\ Now("first") = before["first"]
        /\ Now("second") = before["second"]
        /\ NodesOf("merged") \cap (NodesOf("first") \cup NodesOf("second")) = {}

\* A list of two or more nodes was merged with itself.
C15_Witness ==
    /\ last_op.op = "merge" /\ last_op.a = last_op.b
    /\ Len(before[last_op.a]) >= 2
    /\ Len(Now("merged")) = 2 * Len(before[last_op.a])

----------------------------------------------------------------------------
\* Vocabulary of the traversal properties

\* The parts of the paths x and y up to the length of the shorter one.
Common(x, y) == IF Len(x) <= Len(y) THEN Len(x) ELSE Len(y)

\* x is to the left of y: where the two paths part, x goes left.
LeftTo(x, y) ==
    \E k \in 1..Common(x, y) :
        /\ SubSeq(x, 1, k - 1) = SubSeq(y, 1, k - 1)
        /\ x[k] = 0 /\ y[k] = 1

\* x is a proper ancestor of y.
AncestorOf(x, y) == Len(x) < Len(y) /\ SubSeq(y, 1, Len(x)) = x

\* Every node of the tree is in order, once.
EachNodeOnce ==
    /\ Range(order) = tree
    /\ Len(order) = Cardinality(tree)

\* C16: traverse_dfs returns every node of the tree once, in pre-order: a
\* node comes before the nodes below it, and the whole left subtree of a
\* node before its right subtree; for the root None it returns [].
C16_DFSPreOrder ==
    (tfn = "dfs" /\ tpc = "done") =>
        /\ EachNodeOnce
        /\ \A a, b \in 1..Len(order) :
              a < b => AncestorOf(order[a], order[b]) \/ LeftTo(order[a], order[b])

\* traverse_dfs returned on a tree of depth 2 or more in which a node has
\* both children.
C16_Witness ==
    /\ tfn = "dfs" /\ tpc = "done"
    /\ \E x \in tree : Len(x) >= 2
    /\ \E x \in tree : LeftOf(x) \in tree /\ RightOf(x) \in tree

\* C17: traverse_bfs returns every node of the tree once, in level order:
\* by depth, and from left to right within one depth; for the root None it
\* returns [].
C17_BFSLevelOrder ==
    (tfn = "bfs" /\ tpc = "done") =>
        /\ EachNodeOnce
        /\ \A a, b \in 1..Len(order) :
              a < b =>
                 \/ Len(order[a]) < Len(order[b])
                 \/ Len(order[a]) = Len(order[b]) /\ LeftTo(order[a], order[b])

\* traverse_bfs returned on a tree in which a left subtree is deeper than
\* where the right subtree starts.
C17_Witness ==
    /\ tfn = "bfs" /\ tpc = "done"
    /\ <<0, 0>> \in tree /\ <<1>> \in tree
    /\ \E a, b \in 1..Len(order) :
          a < b /\ order[a] = <<1>> /\ order[b] = <<0, 0>>

----------------------------------------------------------------------------
\* The reference procedure of the greedy selector

\* The place of a priced item in the order by descending ratio, equal
\* ratios in insertion order.
RefRank(k) == 1 + Cardinality({j \in Priced : j # k /\ RanksBefore(j, k)})

RefOrder ==
    [r \in 1..Cardinality(Priced) |-> CHOOSE k \in Priced : RefRank(k) = r]

RECURSIVE RefWalk(_, _, _)
\* One walk over rest: an item is added iff the running cost plus its cost
\* is within the budget; a rejected item is left behind for good.
RefWalk(rest, taken, running_cost) ==
    IF rest = <<>> THEN taken
    ELSE LET k == Head(rest)
         IN IF running_cost + food_items[k].cost <= budget
            THEN RefWalk(Tail(rest), Append(taken, k),
                         running_cost + food_items[k].cost)
            ELSE RefWalk(Tail(rest), taken, running_cost)

\* C18: greedy_algorithm returns the selection of the reference procedure:
\* the items with cost > 0, ordered by descending benefit/cost ratio with
\* equal ratios in insertion order, walked once, an item added iff the
\* running cost plus its cost is <= budget and otherwise skipped for good;
\* the call raises nothing.
C18_GreedyIsReference ==
    \A c \in Calls :
        (fn[c] = "greedy" /\ pc[c] # "idle") =>
            /\ err[c] = "none"
            /\ Returned(c) =>
                  /\ Res(c).items = RefWalk(RefOrder, <<>>, 0)
                  /\ Res(c).total_cost = CostOf(Range(Res(c).items))
                  /\ Res(c).total_calories = CaloriesOf(Range(Res(c).items))

\* greedy_algorithm returned after it rejected an item and took one that
\* ranks behind it.
C18_Witness ==
    \E c \in Calls :
        /\ fn[c] = "greedy" /\ Returned(c)
        /\ \E a, b \in 1..Len(RefOrder) :
              /\ a < b
              /\ RefOrder[a] \notin Range(Res(c).items)
              /\ RefOrder[b] \in Range(Res(c).items)

\* C19: when dynamic_programming returns for a budget >= 0 (all costs are
\* >= 0), the summed benefit of the items recovered by the reconstruction
\* over keep is dp[budget] as the forward pass left it, and their summed
\* cost is <= budget.
C19_ReconstructionMatchesTable ==
    \A c \in Calls :
        (fn[c] = "dp" /\ Returned(c) /\ budget >= 0) =>
            /\ Len(dp[c]) = budget + 1
            /\ NoDuplicates(Res(c).items)
            /\ CaloriesOf(Range(Res(c).items)) = dp[c][budget + 1]
            /\ Res(c).total_calories = dp[c][budget + 1]
            /\ CostOf(Range(Res(c).items)) <= budget

\* dynamic_programming returned two items, which the budget does not pay
\* twice, with the whole benefit of the table's last cell.
C19_Witness ==
    \E c \in Calls :
        /\ fn[c] = "dp" /\ Returned(c) /\ budget >= 0
        /\ Len(Res(c).items) >= 2
        /\ 2 * Res(c).total_cost > budget
        /\ dp[c][budget + 1] >= 2

\* The subsets within budget that reach the largest benefit.
BestSubsets == {S \in Affordable : CaloriesOf(S) = BestCalories}

\* The highest catalog index that is in one of S and T and not in the other.
HighestDifference(S, T) ==
    LET D == (S \ T) \cup (T \ S)
    IN CHOOSE k \in D : \A j \in D : j <= k

\* C20: among the subsets within budget that reach the maximum benefit,
\* dynamic_programming returns the one that prefers earlier catalog items:
\* for any other such subset T, the item of highest catalog index in which
\* T and the returned set differ is in T and not in the returned set.
C20_TiesPreferEarlier ==
    \A c \in Calls :
        (fn[c] = "dp" /\ Returned(c) /\ budget >= 0) =>
            LET R == Range(Res(c).items)
            IN /\ R \in BestSubsets
               /\ \A T \in BestSubsets \ {R} :
                     /\ HighestDifference(R, T) \in T
                     /\ HighestDifference(R, T) \notin R

\* dynamic_programming returned the earlier one of two items of the same
\* cost and benefit > 0, of which the budget pays only one.
C20_Witness ==
    \E c \in Calls :
        /\ fn[c] = "dp" /\ Returned(c) /\ budget >= 0
        /\ Len(food_items) >= 2
        /\ food_items[1] = food_items[2]
        /\ food_items[1].calories > 0
        /\ food_items[1].cost <= budget
        /\ 2 * food_items[1].cost > budget
        /\ Res(c).items = <<1>>

----------------------------------------------------------------------------
\* Degenerate items

\* The items with cost <= 0.
Degenerate == {k \in Names : food_items[k].cost <= 0}

\* C21: for a budget >= 0 the result of dynamic_programming contains every
\* item with cost = 0 and benefit > 0; the result of greedy_algorithm
\* contains no item with cost <= 0.
C21_FreeItems ==
    \A c \in Calls :
        Returned(c) =>
            /\ (fn[c] = "dp" /\ budget >= 0) =>
                  FreeBeneficial \subseteq Range(Res(c).items)
            /\ fn[c] = "greedy" => Range(Res(c).items) \cap Degenerate = {}

\* Both selectors returned for a catalog with a free beneficial item and a
\* priced item that the budget pays; the exact result holds both, the
\* greedy one only the priced item.
C21_Witness ==
    \E c, d \in Calls :
        /\ fn[c] = "dp" /\ Returned(c) /\ budget >= 0
        /\ fn[d] = "greedy" /\ Returned(d)
        /\ FreeBeneficial # {}
        /\ FreeBeneficial \subseteq Range(Res(c).items)
        /\ Range(Res(c).items) \cap Priced # {}
        /\ Res(d).items # <<>>
        /\ Range(Res(d).items) \subseteq Priced

IsPriced(k) == food_items[k].cost > 0

HasPrice(item) == item.cost > 0

\* The catalog with the items of cost <= 0 removed, and the names of the
\* items that stay, in insertion order.
WithoutDegenerate == SelectSeq(food_items, HasPrice)

KeptNames == SelectSeq([k \in 1..Len(food_items) |-> k], IsPriced)

\* A result for the catalog without the degenerate items, with the names
\* the items have in the whole catalog.
Renamed(r) ==
    [r EXCEPT !.items = [j \in 1..Len(r.items) |-> KeptNames[r.items[j]]]]

\* C22: on a catalog with items of cost <= 0 greedy_algorithm raises
\* nothing, no ZeroDivisionError either, and returns the result it returns
\* for the catalog with those items removed.
C22_GreedySkipsDegenerate ==
    \A c \in Calls :
        fn[c] = "greedy" =>
            /\ err[c] = "none" /\ pc[c] # "raised"
            /\ Returned(c) =>
                  LET alone == GreedyAlone(WithoutDegenerate, budget)
                  IN /\ alone.pc = "done"
                     /\ Res(c) = Renamed(alone.result[1])

\* greedy_algorithm returned the second item of a catalog whose first item
\* has the cost 0.
C22_Witness ==
    \E c \in Calls :
        /\ fn[c] = "greedy" /\ Returned(c)
        /\ Len(food_items) >= 2
        /\ food_items[1].cost = 0
        /\ Res(c).items = <<2>>

\* Lines 118-121: the indexes into dp and keep[i] that the inner loop uses
\* for an item of this cost: w and w - cost for every w of
\* range(budget, cost - 1, -1).
ForwardIndexes(cost) ==
    UNION {{wv, wv - cost} : wv \in (RangeStop(cost) + 1)..budget}

\* C23: in dynamic_programming with budget >= 0, for every item with
\* cost <= 0 the indexes w and w - cost of the forward pass and the cursor
\* w of the reconstruction lie in 0..budget, and the call does not fail.
C23_DegenerateIndexing ==
    \A c \in Calls :
        (fn[c] = "dp" /\ budget >= 0) =>
            /\ err[c] = "none" /\ pc[c] # "raised"
            /\ (pc[c] = "d_forward" /\ i[c] \in Degenerate) =>
                  ForwardIndexes(food_items[i[c]].cost) \subseteq 0..budget
            /\ (pc[c] = "d_recon" /\ i[c] >= 1) => w[c] \in 0..budget

----------------------------------------------------------------------------
\* C24: for a budget >= 0 the result of greedy_algorithm cannot take one
\* more item: every item with cost > 0 that is not in the result costs more
\* than budget - total_cost, the part of the budget left unused.
C24_GreedyIsMaximal ==
    \A c \in Calls :
        (fn[c] = "greedy" /\ Returned(c) /\ budget >= 0) =>
            \A k \in Priced \ Range(Res(c).items) :
                food_items[k].cost > budget - Res(c).total_cost

\* greedy_algorithm returned a result that took an item, left a priced
\* item out and did not use up the budget.
C24_Witness ==
    \E c \in Calls :
        /\ fn[c] = "greedy" /\ Returned(c) /\ budget >= 0
        /\ Res(c).items # <<>>
        /\ Priced \ Range(Res(c).items) # {}
        /\ Res(c).total_cost < budget

====
